---- MODULE Spec2Model ----
(***************************************************************************)
(* Model of wtforms_components/widgets.py: the range extractor min_max,    *)
(* the HTML5Input attribute merge, ReadOnlyWidgetProxy and the optgroup    *)
(* aware SelectWidget.  Every widget call is a pure function of the field  *)
(* and the caller's keywords; an action applies one call and records what  *)
(* it handed to the host framework.                                        *)
(***************************************************************************)
EXTENDS Integers, Sequences, FiniteSets, TLC

VARIABLES
    validators,      \* field.validators: a list of validator objects
    widget_options,  \* whether the field has a widget_options attribute
    fdata,           \* field.data
    choices,         \* the entries field.iter_choices() yields
    widget,          \* the widget instance: its class, self.options, self.multiple
    constructed,     \* the widget as its constructor left it (history)
    call,            \* the last call made: operation, route, caller keywords
    result           \* what that call did

vars == <<validators, widget_options, fdata, choices, widget, constructed, call, result>>

---------------------------------------------------------------------------
(* Bounds *)

MaxValidators == 2   \* validators attached to one field
MaxVal == 1          \* range bounds are None or 0..MaxVal
MaxChoices == 2      \* Choice entries in one field's choice tree
MaxLabelLen == 1     \* characters in a label

---------------------------------------------------------------------------
(* Python values, all of one record shape so that any two compare *)

None == [t |-> "none", n |-> 0, s |-> ""]
IntV(i) == [t |-> "int", n |-> i, s |-> ""]
BoolV(b) == [t |-> "bool", n |-> IF b THEN 1 ELSE 0, s |-> ""]
StrV(str) == [t |-> "str", n |-> 0, s |-> str]

(* dict operations *)
EmptyDict == [k \in {} |-> None]
SetDefault(d, k, v) == IF k \in DOMAIN d THEN d ELSE (k :> v) @@ d
SetItem(d, k, v) == (k :> v) @@ d
Update(d, other) == other @@ d

RECURSIVE SetDefaults(_, _)
(* for key, value in src.items(): d.setdefault(key, value) *)
SetDefaults(d, src) ==
    IF DOMAIN src = {} THEN d
    ELSE LET k == CHOOSE x \in DOMAIN src : TRUE
         IN SetDefaults(SetDefault(d, k, src[k]),
                        [x \in DOMAIN src \ {k} |-> src[x]])

(* variant: options_copy = self.options, no copy made *)
copy_alias(d) == [ref |-> "self.options", d |-> d]
(* copy(self.options) makes a new dict with the same items; update() on the
   copy then leaves the original alone. *)
copy(d) == [ref |-> "new", d |-> d]

---------------------------------------------------------------------------
(* Validators and min_max *)

Validator(kind, min, max) == [kind |-> kind, min |-> min, max |-> max]

isinstance(validator, validator_class) == validator.kind = validator_class

Range(seq) == {seq[i] : i \in DOMAIN seq}
PyMax(seq) == CHOOSE x \in Range(seq) : \A y \in Range(seq) : y <= x
PyMin(seq) == CHOOSE x \in Range(seq) : \A y \in Range(seq) : x <= y
Last(seq) == seq[Len(seq)]

min_values(vals, validator_class) ==
    LET m == SelectSeq(vals, LAMBDA v : isinstance(v, validator_class) /\ v.min # None)
    IN [i \in 1..Len(m) |-> m[i].min.n]

max_values(vals, validator_class) ==
    LET m == SelectSeq(vals, LAMBDA v : isinstance(v, validator_class) /\ v.max # None)
    IN [i \in 1..Len(m) |-> m[i].max.n]

(* variant: the last validator's bound instead of the tightest *)
min_max_lastwins(vals, validator_class) ==
    LET mins == min_values(vals, validator_class)
        maxs == max_values(vals, validator_class)
        d1 == IF DOMAIN mins # {} THEN SetItem(EmptyDict, "min", IntV(Last(mins))) ELSE EmptyDict
    IN IF DOMAIN maxs # {} THEN SetItem(d1, "max", IntV(Last(maxs))) ELSE d1

(* data['min'] = max(min_values), data['max'] = min(max_values), each only
   when its list is not empty *)
min_max(vals, validator_class) ==
    LET mins == min_values(vals, validator_class)
        maxs == max_values(vals, validator_class)
        d1 == IF DOMAIN mins # {} THEN SetItem(EmptyDict, "min", IntV(PyMax(mins))) ELSE EmptyDict
    IN IF DOMAIN maxs # {} THEN SetItem(d1, "max", IntV(PyMin(maxs))) ELSE d1

has_validator(vals, validator_class) ==
    \E i \in DOMAIN vals : isinstance(vals[i], validator_class)

---------------------------------------------------------------------------
(* HTML5Input and its subclasses *)

HTML5Classes == {"TextInput", "NumberInput", "DateInput"}

range_validator_class(cls) ==
    CASE cls = "NumberInput" -> "NumberRange"
      [] cls = "TimeInput" -> "TimeRange"
      [] OTHER -> "DateRange"

format(cls) ==
    CASE cls = "TimeInput" -> "%H:%M:%S"
      [] cls = "DateTimeLocalInput" -> "%Y-%m-%dT%H:%M:%S"
      [] cls = "DateTimeInput" -> "%Y-%m-%dT%H:%M:%SZ"
      [] OTHER -> "%Y-%m-%d"

Pad2(i) == IF i < 10 THEN "0" \o ToString(i) ELSE ToString(i)

(* A date bound IntV(i) stands for day i of January 2020 at midnight, a time
   bound for i seconds past midnight. *)
strftime(v, fmt) ==
    StrV(CASE fmt = "%H:%M:%S" -> "00:00:" \o Pad2(v.n)
           [] fmt = "%Y-%m-%dT%H:%M:%S" -> "2020-01-" \o Pad2(v.n) \o "T00:00:00"
           [] fmt = "%Y-%m-%dT%H:%M:%SZ" -> "2020-01-" \o Pad2(v.n) \o "T00:00:00Z"
           [] OTHER -> "2020-01-" \o Pad2(v.n))

BaseDateTimeInput_range_validators(cls, vals) ==
    LET data == min_max(vals, range_validator_class(cls))
    IN [k \in DOMAIN data |-> strftime(data[k], format(cls))]

range_validators(cls, vals) ==
    CASE cls = "NumberInput" -> min_max(vals, range_validator_class(cls))
      [] cls \in {"TimeInput", "DateTimeLocalInput", "DateTimeInput", "DateInput"} ->
            BaseDateTimeInput_range_validators(cls, vals)
      [] OTHER -> EmptyDict

(* variant: the derived values assigned, not defaulted *)
DerivedDefaults_forced(cls, vals, kwargs) ==
    LET k1 == IF has_validator(vals, "DataRequired")
              THEN SetItem(kwargs, "required", BoolV(TRUE)) ELSE kwargs
    IN Update(k1, range_validators(cls, vals))

(* required and range defaults, applied with setdefault *)
DerivedDefaults(cls, vals, kwargs) ==
    LET k1 == IF has_validator(vals, "DataRequired")
              THEN SetDefault(kwargs, "required", BoolV(TRUE)) ELSE kwargs
    IN SetDefaults(k1, range_validators(cls, vals))

(* HTML5Input.__call__: the outcome, the keywords handed to Input.__call__,
   and self.options as the call leaves it.  self.field does not exist, so a
   field with a widget_options attribute ends the call with AttributeError. *)
HTML5Input_call(w, vals, has_widget_options, kwargs) ==
    LET k2 == DerivedDefaults(w.cls, vals, kwargs)
        options_copy == copy(w.options)
        merged == Update(options_copy.d, k2)
    IN IF has_widget_options
       THEN [outcome |-> "AttributeError", passed |-> EmptyDict,
             html |-> <<>>, options |-> w.options]
       ELSE [outcome |-> "rendered", passed |-> merged, html |-> <<>>,
             options |-> IF options_copy.ref = "self.options" THEN merged ELSE w.options]

---------------------------------------------------------------------------
(* SelectWidget *)

field_id == StrV("fid")
field_name == StrV("fname")

(* A choice entry: a Choice(key, value, label), a Choices group (label and
   items) or an object of another type.  Labels are sequences of characters. *)
Choice(key, value, label) ==
    [kind |-> "Choice", key |-> key, value |-> value, label |-> label, items |-> <<>>]
Choices(label, items) ==
    [kind |-> "Choices", key |-> None, value |-> None, label |-> label, items |-> items]
Other == [kind |-> "Other", key |-> None, value |-> None, label |-> <<>>, items |-> <<>>]

(* field.data: a scalar (None included) or a list *)
Scalar(v) == [list |-> FALSE, items |-> <<v>>]
List(vs) == [list |-> TRUE, items |-> vs]

(* Pieces of the output string: literal markup, the string html_params
   returns for a dict, and the characters escape() returns. *)
Lit(str) == [t |-> "lit", s |-> str, p |-> EmptyDict]
Params(tag, d) == [t |-> tag, s |-> "", p |-> d]
Chars(pos, cs) == [i \in DOMAIN cs |-> [t |-> pos, s |-> cs[i], p |-> EmptyDict]]

(* cgi.escape(s) with quote left at its default: &, < and > are replaced,
   a double quote is not. *)
escape(cs) ==
    [i \in DOMAIN cs |->
        CASE cs[i] = "&" -> "&amp;"
          [] cs[i] = "<" -> "&lt;"
          [] cs[i] = ">" -> "&gt;"
          [] OTHER -> cs[i]]

(* A rendering step returns a string, returns None, or raises. *)
Str(toks) == [ret |-> "str", toks |-> toks]
RetNone == [ret |-> "None", toks |-> <<>>]
Raise(exc) == [ret |-> exc, toks |-> <<>>]

RECURSIVE JoinFrom(_, _, _)
JoinFrom(sep, parts, i) ==
    IF i > Len(parts) THEN <<>>
    ELSE (IF i > 1 THEN sep ELSE <<>>) \o parts[i].toks \o JoinFrom(sep, parts, i + 1)

(* sep.join(parts): the parts are produced first (a part that raises ends
   the call), and a part that is None is a TypeError. *)
Join(sep, parts) ==
    IF \E i \in DOMAIN parts : parts[i].ret \notin {"str", "None"}
    THEN LET i == CHOOSE j \in DOMAIN parts :
                      /\ parts[j].ret \notin {"str", "None"}
                      /\ \A k \in 1..(j - 1) : parts[k].ret \in {"str", "None"}
         IN Raise(parts[i].ret)
    ELSE IF \E i \in DOMAIN parts : parts[i].ret = "None"
    THEN Raise("TypeError")
    ELSE Str(JoinFrom(sep, parts, 1))

(* variant: True left as a native boolean *)
option_value_native(value) == value
(* if value is True: value = text_type(value) *)
option_value(value) == IF value = BoolV(TRUE) THEN StrV("True") ELSE value

render_option(value, label, selected) ==
    LET o1 == SetItem(EmptyDict, "value", option_value(value))
        options == IF selected THEN SetItem(o1, "selected", BoolV(TRUE)) ELSE o1
    IN Str(<<Lit("<option "), Params("option", options), Lit(">")>>
           \o Chars("text", escape(label)) \o <<Lit("</option>")>>)

InList(v, vs) == \E i \in DOMAIN vs : vs[i] = v

(* variant: equality only, list data never searched *)
is_selected_eq(data, choice) == data.items = <<choice.value>>
(* choice.value in field.data for a list, field.data == choice.value otherwise *)
is_selected(data, choice) ==
    IF data.list THEN InList(choice.value, data.items)
    ELSE data.items[1] = choice.value

RECURSIVE render_choice(_, _), render_optgroup(_, _)

render_optgroup(data, group) ==
    LET body == Join(<<Lit("\n")>>,
                     [i \in DOMAIN group.items |-> render_choice(data, group.items[i])])
    IN IF body.ret # "str" THEN body
       ELSE Str(<<Lit("<optgroup label=\"")>> \o Chars("attr", escape(group.label))
                \o <<Lit("\">")>> \o body.toks \o <<Lit("</optgroup>")>>)

(* An entry that is neither a Choices nor a Choice falls off the end of the
   if/elif: the method returns None. *)
render_choice(data, choice) ==
    IF choice.kind = "Choices" THEN render_optgroup(data, choice)
    ELSE IF choice.kind = "Choice"
    THEN render_option(choice.key, choice.label, is_selected(data, choice))
    ELSE RetNone

(* variant: multiple only defaulted to True *)
select_params_default(multiple, kwargs) ==
    LET k1 == SetDefault(kwargs, "id", field_id)
        k2 == IF multiple THEN SetDefault(k1, "multiple", BoolV(TRUE)) ELSE k1
    IN SetItem(k2, "name", field_name)

(* kwargs.setdefault('id', field.id); multiple forced; name=field.name *)
select_params(multiple, kwargs) ==
    LET k1 == SetDefault(kwargs, "id", field_id)
        k2 == IF multiple THEN SetItem(k1, "multiple", BoolV(TRUE)) ELSE k1
    IN SetItem(k2, "name", field_name)

SelectWidget_call(w, data, entries, kwargs) ==
    LET open == Str(<<Lit("<select "), Params("select", select_params(w.multiple, kwargs)),
                      Lit(">")>>)
        parts == <<open>> \o [i \in DOMAIN entries |-> render_choice(data, entries[i])]
                 \o <<Str(<<Lit("</select>")>>)>>
        joined == Join(<<>>, parts)
    IN [outcome |-> IF joined.ret = "str" THEN "rendered" ELSE joined.ret,
        passed |-> EmptyDict, html |-> joined.toks, options |-> w.options]

---------------------------------------------------------------------------
(* ReadOnlyWidgetProxy *)

(* variant: readonly assigned, not defaulted *)
proxy_kwargs_forced(kwargs) == SetItem(kwargs, "readonly", BoolV(TRUE))
(* kwargs.setdefault('readonly', True) *)
proxy_kwargs(kwargs) == SetDefault(kwargs, "readonly", BoolV(TRUE))

(* widget(field, **kwargs): the call of whatever widget this is *)
Invoke(w, kwargs) ==
    IF w.cls = "SelectWidget" THEN SelectWidget_call(w, fdata, choices, kwargs)
    ELSE HTML5Input_call(w, validators, widget_options, kwargs)

---------------------------------------------------------------------------
(* Inputs *)

RECURSIVE SeqsUpTo(_, _)
SeqsUpTo(S, n) ==
    IF n = 0 THEN {<<>>}
    ELSE LET shorter == SeqsUpTo(S, n - 1)
         IN shorter \cup {Append(q, x) : q \in {r \in shorter : Len(r) = n - 1}, x \in S}

Bounds == {None} \cup {IntV(i) : i \in 0..MaxVal}

(* validators for min_max on its own: two range kinds and one without bounds *)
RangeValidators ==
    {Validator("DataRequired", None, None)} \cup
    {Validator(k, lo, hi) : k \in {"NumberRange", "Length"}, lo \in Bounds, hi \in Bounds}

(* validators of the fields the input widgets render *)
InputValidators ==
    {Validator("DataRequired", None, None)} \cup
    {Validator(k, lo, hi) : k \in {"NumberRange", "DateRange"},
                            lo \in {None, IntV(1), IntV(2)}, hi \in {None, IntV(3)}}

InputOptions ==
    {EmptyDict,
     ("required" :> BoolV(FALSE)) @@ ("min" :> IntV(7)) @@ ("step" :> IntV(1)),
     "max" :> IntV(7)}

InputKwargs ==
    {EmptyDict,
     "required" :> BoolV(FALSE),
     ("min" :> IntV(9)) @@ ("readonly" :> BoolV(FALSE)),
     ("max" :> IntV(9)) @@ ("class" :> StrV("c"))}

SelectKwargs ==
    {EmptyDict,
     ("id" :> StrV("custom")) @@ ("readonly" :> BoolV(FALSE)),
     ("multiple" :> BoolV(FALSE)) @@ ("class" :> StrV("c"))}

KwargsFor(cls) == IF cls = "SelectWidget" THEN SelectKwargs ELSE InputKwargs

LeafChoices ==
    {Choice(StrV("a"), StrV("a"), <<"A">>),
     Choice(StrV("k"), StrV("b"), <<"B">>),
     Choice(BoolV(TRUE), BoolV(TRUE), <<"C">>),
     Choice(BoolV(FALSE), StrV("c"), <<"D">>)}

DataSet ==
    {Scalar(None), Scalar(StrV("a")), Scalar(StrV("b")), Scalar(BoolV(TRUE)),
     List(<<>>), List(<<StrV("a"), StrV("c")>>), List(<<StrV("b")>>)}

RECURSIVE TreesWith(_, _, _)
(* the choice sequences with exactly n leaf entries: each top-level entry is
   a leaf or a group of one or more leaves *)
TreesWith(leaves, labels, n) ==
    IF n = 0 THEN {<<>>}
    ELSE UNION {
        {<<e>> \o rest :
            e \in (IF j = 1 THEN leaves ELSE {}) \cup
                  {Choices(l, items) : l \in labels, items \in [1..j -> leaves]},
            rest \in TreesWith(leaves, labels, n - j)} : j \in 1..n}

ChoiceTrees(leaves, labels) == UNION {TreesWith(leaves, labels, n) : n \in 0..MaxChoices}

NoCall == [op |-> "none", via |-> "direct", kwargs |-> EmptyDict, validator_class |-> ""]
NoResult ==
    [outcome |-> "none", received |-> EmptyDict, invocations |-> 0,
     passed |-> EmptyDict, html |-> <<>>, data |-> EmptyDict]

InitInput ==
    /\ validators \in SeqsUpTo(InputValidators, MaxValidators)
    /\ widget_options \in BOOLEAN
    /\ fdata = Scalar(None)
    /\ choices = <<>>
    /\ widget \in [cls : HTML5Classes, options : InputOptions, multiple : {FALSE}]

InitSelect ==
    /\ validators = <<>>
    /\ widget_options = FALSE
    /\ fdata \in DataSet
    /\ choices \in ChoiceTrees(LeafChoices \cup {Other}, {<<"G">>})
    /\ widget \in [cls : {"SelectWidget"}, options : {EmptyDict}, multiple : BOOLEAN]

Init ==
    /\ InitInput \/ InitSelect
    /\ constructed = widget
    /\ call = NoCall
    /\ result = NoResult

---------------------------------------------------------------------------
(* Operations *)

Record(op, via, kwargs, received, r) ==
    /\ call' = [op |-> op, via |-> via, kwargs |-> kwargs, validator_class |-> ""]
    /\ result' = [outcome |-> r.outcome, received |-> received, invocations |-> 1,
                  passed |-> r.passed, html |-> r.html, data |-> EmptyDict]
    /\ widget' = [widget EXCEPT !.options = r.options]
    /\ UNCHANGED <<validators, widget_options, fdata, choices, constructed>>

(* HTML5Input.__call__(field, **kwargs) *)
HTML5InputCall(kwargs) ==
    /\ widget.cls \in HTML5Classes
    /\ Record("HTML5Input", "direct", kwargs, kwargs,
              HTML5Input_call(widget, validators, widget_options, kwargs))

(* SelectWidget.__call__(field, **kwargs) *)
SelectWidgetCall(kwargs) ==
    /\ widget.cls = "SelectWidget"
    /\ Record("SelectWidget", "direct", kwargs, kwargs,
              SelectWidget_call(widget, fdata, choices, kwargs))

(* ReadOnlyWidgetProxy(widget).__call__(field, **kwargs) *)
ReadOnlyWidgetProxyCall(kwargs) ==
    /\ kwargs \in KwargsFor(widget.cls)
    /\ Record(IF widget.cls = "SelectWidget" THEN "SelectWidget" ELSE "HTML5Input",
              "proxy", kwargs, proxy_kwargs(kwargs), Invoke(widget, proxy_kwargs(kwargs)))

(* min_max(field, validator_class) *)
MinMaxCall(validator_class) ==
    /\ call' = [op |-> "min_max", via |-> "direct", kwargs |-> EmptyDict,
                validator_class |-> validator_class]
    /\ result' = [NoResult EXCEPT !.outcome = "returned",
                                  !.data = min_max(validators, validator_class)]
    /\ UNCHANGED <<validators, widget_options, fdata, choices, widget, constructed>>

Next ==
    \/ \E kwargs \in InputKwargs : HTML5InputCall(kwargs)
    \/ \E kwargs \in SelectKwargs : SelectWidgetCall(kwargs)
    \/ \E kwargs \in InputKwargs \cup SelectKwargs : ReadOnlyWidgetProxyCall(kwargs)

Spec == Init /\ [][Next]_vars

(* min_max on its own *)
InitMinMax ==
    /\ validators \in SeqsUpTo(RangeValidators, MaxValidators)
    /\ widget_options = FALSE
    /\ fdata = Scalar(None)
    /\ choices = <<>>
    /\ widget = [cls |-> "NumberInput", options |-> EmptyDict, multiple |-> FALSE]
    /\ constructed = widget
    /\ call = NoCall
    /\ result = NoResult

NextMinMax == \E validator_class \in {"NumberRange", "Length"} : MinMaxCall(validator_class)

SpecMinMax == InitMinMax /\ [][NextMinMax]_vars

(* SelectWidget over labels of every character *)
LabelChars == {"a", "<", ">", "&", "\""}
Labels == SeqsUpTo(LabelChars, MaxLabelLen) \ {<<>>}

InitEscape ==
    /\ validators = <<>>
    /\ widget_options = FALSE
    /\ fdata \in {Scalar(None), Scalar(StrV("a"))}
    /\ \E gl \in Labels, ol \in Labels, top \in BOOLEAN :
          LET c == Choice(StrV("a"), StrV("a"), ol)
          IN choices = IF top THEN <<c>> ELSE <<Choices(gl, <<c>>)>>
    /\ widget \in [cls : {"SelectWidget"}, options : {EmptyDict}, multiple : BOOLEAN]
    /\ constructed = widget
    /\ call = NoCall
    /\ result = NoResult

NextEscape ==
    \/ \E kwargs \in SelectKwargs : SelectWidgetCall(kwargs)
    \/ \E kwargs \in SelectKwargs : ReadOnlyWidgetProxyCall(kwargs)

SpecEscape == InitEscape /\ [][NextEscape]_vars

---------------------------------------------------------------------------
(* Properties *)

SetMax(S) == CHOOSE x \in S : \A y \in S : y <= x
SetMin(S) == CHOOSE x \in S : \A y \in S : x <= y
KindMins(vals, kind) ==
    {vals[i].min.n : i \in {j \in DOMAIN vals : vals[j].kind = kind /\ vals[j].min # None}}
KindMaxs(vals, kind) ==
    {vals[i].max.n : i \in {j \in DOMAIN vals : vals[j].kind = kind /\ vals[j].max # None}}

(* C1: min_max(field, kind) returns as 'min' the largest min among the
   validators of that kind and as 'max' the smallest max among them; a key is
   absent exactly when no validator of the kind carries that bound.  Order
   and validators of other kinds play no part. *)
C1_MinMaxTightest ==
    call.op = "min_max" =>
        LET mins == KindMins(validators, call.validator_class)
            maxs == KindMaxs(validators, call.validator_class)
            d == result.data
        IN /\ DOMAIN d \subseteq {"min", "max"}
           /\ ("min" \in DOMAIN d) <=> (mins # {})
           /\ ("max" \in DOMAIN d) <=> (maxs # {})
           /\ mins # {} => d["min"] = IntV(SetMax(mins))
           /\ maxs # {} => d["max"] = IntV(SetMin(maxs))

(* two validators of the kind whose mins differ, the larger one first, beside
   a validator the kind excludes or a bound that is absent *)
C1_Witness ==
    /\ call.op = "min_max"
    /\ Len(validators) = 2
    /\ validators[1].kind = call.validator_class
    /\ validators[2].kind = call.validator_class
    /\ validators[1].min # None /\ validators[2].min # None
    /\ validators[1].min.n > validators[2].min.n
    /\ validators[1].max = None
    /\ result.data = ("min" :> validators[1].min) @@ ("max" :> validators[2].max)

(* what the field's validators derive for an input widget of class cls *)
Derived(cls, vals) ==
    (IF \E i \in DOMAIN vals : vals[i].kind = "DataRequired"
     THEN "required" :> BoolV(TRUE) ELSE EmptyDict) @@ range_validators(cls, vals)

(* C2: every attribute an HTML5Input call hands to the host renderer is the
   caller's keyword if the caller gave that key, else the derived default if
   one is derived, else the constructor's option if there is one, else the
   key is absent. *)
C2_MergePrecedence ==
    (call.op = "HTML5Input" /\ result.outcome = "rendered") =>
        LET kw == result.received
            derived == Derived(constructed.cls, validators)
            opts == constructed.options
            passed == result.passed
        IN \A key \in DOMAIN kw \cup DOMAIN derived \cup DOMAIN opts \cup DOMAIN passed :
              IF key \in DOMAIN kw THEN key \in DOMAIN passed /\ passed[key] = kw[key]
              ELSE IF key \in DOMAIN derived
              THEN key \in DOMAIN passed /\ passed[key] = derived[key]
              ELSE IF key \in DOMAIN opts
              THEN key \in DOMAIN passed /\ passed[key] = opts[key]
              ELSE key \notin DOMAIN passed

(* explicit required=False on a field with DataRequired, over a widget whose
   options name min, with a derived min *)
C2_Witness ==
    /\ call.op = "HTML5Input" /\ result.outcome = "rendered"
    /\ "required" \in DOMAIN call.kwargs /\ call.kwargs["required"] = BoolV(FALSE)
    /\ \E i \in DOMAIN validators : validators[i].kind = "DataRequired"
    /\ result.passed["required"] = BoolV(FALSE)
    /\ "min" \in DOMAIN constructed.options
    /\ "min" \in DOMAIN Derived(constructed.cls, validators)
    /\ result.passed["min"] # constructed.options["min"]
    /\ result.passed["step"] = constructed.options["step"]

(* the Choice entries of a choice sequence, in rendering order *)
RECURSIVE FlatChoices(_)
FlatChoices(entries) ==
    IF entries = <<>> THEN <<>>
    ELSE (IF Head(entries).kind = "Choice" THEN <<Head(entries)>>
          ELSE IF Head(entries).kind = "Choices" THEN FlatChoices(Head(entries).items)
          ELSE <<>>) \o FlatChoices(Tail(entries))

RECURSIVE HasOther(_)
HasOther(entries) ==
    \E i \in DOMAIN entries :
        \/ entries[i].kind = "Other"
        \/ entries[i].kind = "Choices" /\ HasOther(entries[i].items)

RECURSIVE WithoutOther(_)
WithoutOther(entries) ==
    IF entries = <<>> THEN <<>>
    ELSE (IF Head(entries).kind = "Other" THEN <<>>
          ELSE IF Head(entries).kind = "Choices"
          THEN <<[Head(entries) EXCEPT !.items = WithoutOther(@)]>>
          ELSE <<Head(entries)>>) \o WithoutOther(Tail(entries))

(* the dicts handed to html_params for the option tags, in output order *)
OptionParams(html) ==
    LET o == SelectSeq(html, LAMBDA tok : tok.t = "option")
    IN [i \in DOMAIN o |-> o[i].p]

SelectRendered == call.op = "SelectWidget" /\ result.outcome = "rendered"

(* C3: an entry that is neither a Choice nor a Choices group is skipped: the
   call raises nothing and returns the select fragment of the other entries. *)
C3_UnrecognizedSkipped ==
    (call.op = "SelectWidget" /\ HasOther(choices)) =>
        /\ result.outcome = "rendered"
        /\ result.html =
              SelectWidget_call(constructed, fdata, WithoutOther(choices), result.received).html

ShouldSelect(data, choice) ==
    \/ ~data.list /\ data.items[1] = choice.value
    \/ data.list /\ \E i \in DOMAIN data.items : data.items[i] = choice.value

(* C4: each rendered Choice is marked selected exactly when the field's data
   equals its value or, for list data, its value is in the list. *)
C4_SelectedIffDataMatches ==
    SelectRendered =>
        LET flat == FlatChoices(choices)
            ps == OptionParams(result.html)
        IN /\ Len(ps) = Len(flat)
           /\ \A i \in DOMAIN flat :
                 /\ ("selected" \in DOMAIN ps[i]) <=> ShouldSelect(fdata, flat[i])
                 /\ "selected" \in DOMAIN ps[i] => ps[i]["selected"] = BoolV(TRUE)

(* list data [a, c] over a group holding the choices of value a and b *)
C4_Witness ==
    /\ SelectRendered
    /\ fdata = List(<<StrV("a"), StrV("c")>>)
    /\ Len(choices) = 1 /\ choices[1].kind = "Choices"
    /\ LET ps == OptionParams(result.html)
       IN /\ Len(ps) = 2
          /\ choices[1].items[1].value = StrV("a") /\ "selected" \in DOMAIN ps[1]
          /\ choices[1].items[2].value = StrV("b") /\ "selected" \notin DOMAIN ps[2]

TextOfTrue(v) == IF v = BoolV(TRUE) THEN StrV("True") ELSE v

(* C5 as stated: the value attribute of each option is the choice's value
   (the component compared with the field's data), True written as text. *)
C5_ValueAttrIsValue ==
    SelectRendered =>
        LET flat == FlatChoices(choices)
            ps == OptionParams(result.html)
        IN \A i \in DOMAIN flat : ps[i]["value"] = TextOfTrue(flat[i].value)

(* C5 amended: the value attribute of each option is the choice's key, a
   literal True key written as the text "True". *)
C5_ValueAttrIsKey ==
    SelectRendered =>
        LET flat == FlatChoices(choices)
            ps == OptionParams(result.html)
        IN /\ Len(ps) = Len(flat)
           /\ \A i \in DOMAIN flat : ps[i]["value"] = TextOfTrue(flat[i].key)

(* a choice whose key is True beside one whose key and value differ *)
C5_Witness ==
    /\ SelectRendered
    /\ Len(choices) = 2
    /\ choices[1].kind = "Choice" /\ choices[1].key = BoolV(TRUE)
    /\ choices[2].kind = "Choice" /\ choices[2].key # choices[2].value
    /\ OptionParams(result.html)[1]["value"] = StrV("True")
    /\ OptionParams(result.html)[2]["value"] = choices[2].key

(* C6: an HTML5Input call never raises: whatever the field, it reaches the
   host renderer. *)
C6_NeverRaises ==
    call.op = "HTML5Input" => result.outcome = "rendered"

(* C7: a call through ReadOnlyWidgetProxy invokes the wrapped widget once
   with the caller's keywords, readonly=True added only when the caller gave
   no readonly. *)
C7_ReadonlyDefault ==
    call.via = "proxy" =>
        LET kw == call.kwargs
        IN /\ result.invocations = 1
           /\ DOMAIN result.received = DOMAIN kw \cup {"readonly"}
           /\ \A k \in DOMAIN kw : result.received[k] = kw[k]
           /\ "readonly" \notin DOMAIN kw => result.received["readonly"] = BoolV(TRUE)

C7_Witness ==
    /\ call.via = "proxy"
    /\ "readonly" \in DOMAIN call.kwargs
    /\ call.kwargs["readonly"] = BoolV(FALSE)
    /\ result.received["readonly"] = BoolV(FALSE)
    /\ result.outcome = "rendered"

(* C8: no call changes the widget's configured options or class, and what a
   call returns is what the widget as constructed returns for the same field
   and keywords, whatever calls came before. *)
C8_NoLeakBetweenCalls ==
    /\ widget = constructed
    /\ call.op \in {"HTML5Input", "SelectWidget"} =>
          LET r == Invoke(constructed, result.received)
          IN /\ result.outcome = r.outcome
             /\ result.passed = r.passed
             /\ result.html = r.html

(* a call that merged derived defaults and keywords over non-empty options *)
C8_Witness ==
    /\ call.op = "HTML5Input" /\ result.outcome = "rendered"
    /\ DOMAIN constructed.options # {}
    /\ call.kwargs # EmptyDict
    /\ DOMAIN Derived(constructed.cls, validators) # {}
    /\ result.passed # constructed.options
    /\ widget.options = constructed.options

(* C9: no '<', '>' or '&' of a label reaches the output raw, and no double
   quote of a group label reaches the label="..." attribute raw. *)
C9_LabelsEscaped ==
    \A i \in DOMAIN result.html :
        LET tok == result.html[i]
        IN /\ tok.t \in {"text", "attr"} => tok.s \notin {"<", ">", "&"}
           /\ tok.t = "attr" => tok.s # "\""

(* C10: the select tag carries name = field.name, id = the caller's id or
   else field.id, every other keyword as given; multiple is forced to True by
   a widget built with multiple=True and not added otherwise. *)
C10_SelectTagParams ==
    SelectRendered =>
        LET kw == result.received
            p == result.html[2].p
        IN /\ result.html[2].t = "select"
           /\ DOMAIN p = DOMAIN kw \cup {"name", "id"}
                         \cup (IF constructed.multiple THEN {"multiple"} ELSE {})
           /\ p["name"] = field_name
           /\ p["id"] = IF "id" \in DOMAIN kw THEN kw["id"] ELSE field_id
           /\ \A k \in DOMAIN kw \ {"id", "multiple"} : p[k] = kw[k]
           /\ constructed.multiple => p["multiple"] = BoolV(TRUE)
           /\ (~constructed.multiple /\ "multiple" \in DOMAIN kw) =>
                 p["multiple"] = kw["multiple"]

(* a widget built with multiple=True called with multiple=False *)
C10_Witness ==
    /\ SelectRendered
    /\ constructed.multiple
    /\ "multiple" \in DOMAIN call.kwargs /\ call.kwargs["multiple"] = BoolV(FALSE)
    /\ result.html[2].p["multiple"] = BoolV(TRUE)
    /\ result.html[2].p["id"] = field_id

====
